---- MODULE Spec2Model ----
(***************************************************************************)
(* Child progress analytics of the specialist portal                       *)
(* (src/routes/specialist.js): the session normalizer, the attempt         *)
(* flattener, the final-word reducer, the aggregate statistics and the      *)
(* three request handlers (interactive view, JSON data API, PDF export).   *)
(***************************************************************************)
EXTENDS Integers, Sequences, FiniteSets, TLC

(***************************************************************************)
(* JavaScript values.  A value is a record [k, n, d]: k is its kind and,   *)
(* for kind "num", n/d (d > 0) is the number it holds.                      *)
(*   "undef"  undefined (a missing field)                                   *)
(*   "null"   null                                                          *)
(*   "num"    a finite number                                               *)
(*   "str"    a non-empty string that is neither numeric nor a date         *)
(*   "nan"    NaN (only ever computed, never received)                      *)
(* In a date field a "num" value stands for a parseable date with that      *)
(* epoch time.                                                              *)
(***************************************************************************)
Undef == [k |-> "undef", n |-> 0, d |-> 1]
Null == [k |-> "null", n |-> 0, d |-> 1]
NaN == [k |-> "nan", n |-> 0, d |-> 1]
Str == [k |-> "str", n |-> 0, d |-> 1]
Num(x) == [k |-> "num", n |-> x, d |-> 1]
Ratio(x, y) == [k |-> "num", n |-> x, d |-> y]

IsNum(v) == v.k = "num"

\* a ?? b
Coalesce(a, b) == IF a.k \in {"undef", "null"} THEN b ELSE a

\* Number(v)
ToNumber(v) ==
    CASE v.k = "num" -> v
      [] v.k = "null" -> Num(0)
      [] OTHER -> NaN

\* the truthiness of a value
Truthy(v) ==
    CASE v.k = "num" -> v.n # 0
      [] v.k = "str" -> TRUE
      [] OTHER -> FALSE

\* Number(v) || 0
NumberOrZero(v) == IF Truthy(ToNumber(v)) THEN ToNumber(v) ELSE Num(0)

\* arithmetic and comparison of "num" values
Add(a, b) == IF a.d = b.d THEN Ratio(a.n + b.n, a.d) ELSE Ratio(a.n * b.d + b.n * a.d, a.d * b.d)
Sub(a, b) == IF a.d = b.d THEN Ratio(a.n - b.n, a.d) ELSE Ratio(a.n * b.d - b.n * a.d, a.d * b.d)
Less(a, b) == a.n * b.d < b.n * a.d
Geq(a, b) == a.n * b.d >= b.n * a.d
SameNumber(a, b) == a.n * b.d = b.n * a.d

\* Math.max(0, v)
MaxZero(v) == IF v.n < 0 THEN Num(0) ELSE v

\* Math.round(v): the nearest integer, halves rounded up
MathRound(v) == (2 * v.n + v.d) \div (2 * v.d)

\* new Date(v).getTime(): null is the epoch, a missing or unparseable date is NaN
DateOf(v) ==
    CASE v.k = "num" -> v
      [] v.k = "null" -> Num(0)
      [] OTHER -> NaN

\* new Date(v || 0).getTime(): a missing, null or zero time is the epoch
DateTime(v) == IF Truthy(v) THEN DateOf(v) ELSE Num(0)

\* the sum of s[lo..hi], halving the range
RECURSIVE SumRange(_, _, _)
SumRange(s, lo, hi) ==
    IF lo > hi THEN Num(0)
    ELSE IF lo = hi THEN Add(Num(0), s[lo])
    ELSE LET mid == (lo + hi) \div 2
         IN  Add(SumRange(s, lo, mid), SumRange(s, mid + 1, hi))

\* values.reduce((sum, v) => sum + v, 0)
SumSeq(s) == SumRange(s, 1, Len(s))

\* arr.slice(-n)
SliceLast(s, n) == IF Len(s) <= n THEN s ELSE SubSeq(s, Len(s) - n + 1, Len(s))

\* arr.slice(0, n)
SliceFirst(s, n) == IF Len(s) <= n THEN s ELSE SubSeq(s, 1, n)

Reverse(s) == [i \in 1..Len(s) |-> s[Len(s) + 1 - i]]

\* the result of a computation that may throw
Ok(v) == [ok |-> TRUE, val |-> v]
Raise == [ok |-> FALSE, val |-> <<>>]

(***************************************************************************)
(* Sessions and attempts as the upstream delivers them.  Every object has  *)
(* the same fields; a field the object lacks holds Undef ("" for a text).   *)
(* nul marks a null array element.  An array-valued field is [arr, items]:  *)
(* arr is Array.isArray of the value.                                       *)
(***************************************************************************)
Array(items) == [arr |-> TRUE, items |-> items]
NotArray == [arr |-> FALSE, items |-> <<>>]

Attempt(word, letter, vowel, timestamp, score, pronunciationScore, recognizedText) ==
    [nul |-> FALSE, word |-> word, letter |-> letter, vowel |-> vowel,
     timestamp |-> timestamp, success |-> TRUE, score |-> score,
     pronunciationScore |-> pronunciationScore, accuracyScore |-> Undef,
     fluencyScore |-> Undef, completenessScore |-> Undef,
     recognizedText |-> recognizedText, referenceText |-> "", analysisSource |-> ""]

NullAttempt == [Attempt("", "", "", Undef, Undef, Undef, "") EXCEPT !.nul = TRUE]

EmptySession ==
    [nul |-> FALSE,
     totalAttempts |-> Undef, total_attempts |-> Undef,
     successfulAttempts |-> Undef, successful_attempts |-> Undef,
     failedAttempts |-> Undef, failed_attempts |-> Undef,
     averageScore |-> Undef, average_score |-> Undef,
     duration |-> Undef, sessionDate |-> Undef, session_date |-> Undef,
     successRate |-> Undef, attempts |-> NotArray]

NullSession == [EmptySession EXCEPT !.nul = TRUE]

(***************************************************************************)
(* _normalizeSessionsForCharts                                              *)
(***************************************************************************)
\* the number of trailing sessions the normalizer keeps
KeepSessions == 30

\* the body of the map callback, for one non-null session
NormalizeOne(s) ==
    LET totalAttempts == NumberOrZero(Coalesce(Coalesce(s.totalAttempts, s.total_attempts), Num(0)))
        successfulAttempts == NumberOrZero(Coalesce(Coalesce(s.successfulAttempts, s.successful_attempts), Num(0)))
        failedRead == ToNumber(Coalesce(Coalesce(s.failedAttempts, s.failed_attempts), Num(0)))
        failedAttempts == IF Truthy(failedRead) THEN failedRead
                          ELSE MaxZero(Sub(totalAttempts, successfulAttempts))
        averageScore == NumberOrZero(Coalesce(Coalesce(s.averageScore, s.average_score), Num(0)))
        duration == NumberOrZero(Coalesce(s.duration, Num(0)))
        sessionDate == Coalesce(s.sessionDate, s.session_date)
    IN  [EmptySession EXCEPT
            !.sessionDate = sessionDate,
            !.duration = duration,
            !.totalAttempts = totalAttempts,
            !.successfulAttempts = successfulAttempts,
            !.failedAttempts = failedAttempts,
            !.averageScore = averageScore,
            !.successRate = IF totalAttempts.n > 0
                            THEN Ratio(successfulAttempts.n * 100 * totalAttempts.d,
                                       totalAttempts.n * successfulAttempts.d)
                            ELSE Num(0)]

\* sessions.slice(0, 30) in place of sessions.slice(-30)
NormalizerInputFirst(progressSessions) ==
    SliceFirst(IF progressSessions.arr THEN progressSessions.items ELSE <<>>, KeepSessions)

\* the whole list in place of sessions.slice(-30)
NormalizerInputAll(progressSessions) ==
    IF progressSessions.arr THEN progressSessions.items ELSE <<>>

\* sessions.slice(-30): the trailing sessions that are normalized
NormalizerInput(progressSessions) ==
    SliceLast(IF progressSessions.arr THEN progressSessions.items ELSE <<>>, KeepSessions)

\* reading a field of a null element throws a TypeError
NormalizeSessionsForCharts(progressSessions) ==
    LET kept == NormalizerInput(progressSessions)
    IN  IF \E i \in 1..Len(kept) : kept[i].nul
        THEN Raise
        ELSE Ok([i \in 1..Len(kept) |-> NormalizeOne(kept[i])])

(***************************************************************************)
(* _flattenAttemptsFromProgress                                             *)
(***************************************************************************)
DefaultLimit == 50
MaxLimit == 200

\* a || b for texts: the empty (or missing) text is falsy
OrText(a, b) == IF a # "" THEN a ELSE b

\* a.word || a.letter || a.vowel || ''
TargetOf(a) == OrText(a.word, OrText(a.letter, OrText(a.vowel, "")))

\* typeof v === 'number' ? v : undefined
NumberOrUndef(v) == IF IsNum(v) THEN v ELSE Undef

\* the object pushed for attempt a of a session dated sessionDate
FlatAttempt(sessionDate, a) ==
    [sessionDate |-> sessionDate,
     timestamp |-> a.timestamp,
     target |-> TargetOf(a),
     letter |-> a.letter,
     word |-> a.word,
     vowel |-> a.vowel,
     success |-> a.success,
     score |-> NumberOrUndef(a.score),
     pronunciationScore |-> NumberOrUndef(a.pronunciationScore),
     accuracyScore |-> NumberOrUndef(a.accuracyScore),
     fluencyScore |-> NumberOrUndef(a.fluencyScore),
     completenessScore |-> NumberOrUndef(a.completenessScore),
     recognizedText |-> a.recognizedText,
     referenceText |-> a.referenceText,
     analysisSource |-> a.analysisSource]

\* a flattening that leaves out the attempts without a target
SessionAttemptsTargeted(s) ==
    LET sessionDate == Coalesce(s.sessionDate, s.session_date)
        sessionAttempts == IF s.attempts.arr THEN s.attempts.items ELSE <<>>
        targeted == SelectSeq(sessionAttempts, LAMBDA a : TargetOf(a) # "")
    IN  [i \in 1..Len(targeted) |-> FlatAttempt(sessionDate, targeted[i])]

\* the attempts one session contributes
SessionAttempts(s) ==
    LET sessionDate == Coalesce(s.sessionDate, s.session_date)
        sessionAttempts == IF s.attempts.arr THEN s.attempts.items ELSE <<>>
    IN  [i \in 1..Len(sessionAttempts) |-> FlatAttempt(sessionDate, sessionAttempts[i])]

\* the attempts of sessions[lo..hi] in order, halving the range
RECURSIVE CollectRange(_, _, _)
CollectRange(sessions, lo, hi) ==
    IF lo > hi THEN <<>>
    ELSE IF lo = hi THEN SessionAttempts(sessions[lo])
    ELSE LET mid == (lo + hi) \div 2
         IN  CollectRange(sessions, lo, mid) \o CollectRange(sessions, mid + 1, hi)

\* the attempts pushed by the two nested loops
CollectAttempts(sessions) == CollectRange(sessions, 1, Len(sessions))

\* the comparator of the sort, tb - ta; a NaN result counts as 0
CompareAttempts(a, b) ==
    LET ta == DateTime(a.timestamp)
        tb == DateTime(b.timestamp)
    IN  IF IsNum(ta) /\ IsNum(tb) THEN tb.n - ta.n ELSE 0

\* every timestamp has a time: the comparator is then a consistent ordering
Comparable(s) == \A i \in 1..Len(s) : IsNum(DateTime(s[i].timestamp))

\* the time of each attempt, as a sequence
TimesOf(s) == [i \in 1..Len(s) |-> DateTime(s[i].timestamp).n] \o <<>>

\* the place of each attempt in the stable order by descending time: behind
\* the later ones and behind those of its time that came first
RanksOf(time) ==
    [i \in 1..Len(time) |->
        Cardinality({j \in 1..Len(time) : time[j] > time[i] \/ (time[j] = time[i] /\ j < i)}) + 1] \o <<>>

PlaceByRank(s, rank) == [p \in 1..Len(s) |-> s[CHOOSE i \in 1..Len(s) : rank[i] = p]]

\* the stable sort by descending time
StableSort(s) == PlaceByRank(s, RanksOf(TimesOf(s)))

\* With a comparator that answers NaN the order is what the engine's
\* algorithm makes of it.  Node's engine sorts an array of fewer than 64
\* elements by taking the leading run and inserting the other elements by
\* binary search.
ShortArray == 64

\* the leading run of s (Len(s) >= 2): strictly descending, or ascending
RunDescends(s) == CompareAttempts(s[2], s[1]) < 0
RunGoesOn(s, idx) ==
    IF RunDescends(s) THEN CompareAttempts(s[idx], s[idx - 1]) < 0
    ELSE CompareAttempts(s[idx], s[idx - 1]) >= 0
RunLength(s) ==
    CHOOSE r \in 2..Len(s) :
        /\ \A idx \in 3..r : RunGoesOn(s, idx)
        /\ r = Len(s) \/ ~RunGoesOn(s, r + 1)

\* a descending run is reversed in place
MakeRun(s) ==
    IF RunDescends(s)
    THEN [i \in 1..Len(s) |-> IF i <= RunLength(s) THEN s[RunLength(s) + 1 - i] ELSE s[i]]
    ELSE s

\* the binary search for the place of pivot among s[left..right-1]
RECURSIVE SearchPlace(_, _, _, _)
SearchPlace(s, pivot, left, right) ==
    IF left >= right THEN left
    ELSE LET mid == left + ((right - left) \div 2)
         IN  IF CompareAttempts(pivot, s[mid]) < 0
             THEN SearchPlace(s, pivot, left, mid)
             ELSE SearchPlace(s, pivot, mid + 1, right)

\* s[start..] inserted one by one into the sorted s[1..start-1]
RECURSIVE InsertAttempt(_, _)
InsertAttempt(s, start) ==
    IF start > Len(s) THEN s
    ELSE LET place == SearchPlace(s, s[start], 1, start)
             moved == [i \in 1..Len(s) |->
                          IF i < place \/ i > start THEN s[i]
                          ELSE IF i = place THEN s[start]
                          ELSE s[i - 1]]
         IN  InsertAttempt(moved, start + 1)

\* attempts.sort(comparator)
SortAttempts(s) ==
    IF Len(s) < 2 THEN s
    ELSE IF Comparable(s) \/ Len(s) >= ShortArray THEN StableSort(s)
    ELSE InsertAttempt(MakeRun(s), RunLength(s) + 1)

\* Math.max(1, Math.min(limit, 200))
ClampLimit(limit) ==
    LET m == IF limit < MaxLimit THEN limit ELSE MaxLimit
    IN  IF m > 1 THEN m ELSE 1

\* reading a field of a null session or of a null attempt throws a TypeError
FlattenAttemptsFromProgress(progressSessions, limit) ==
    LET sessions == IF progressSessions.arr THEN progressSessions.items ELSE <<>>
        broken(s) == s.nul \/ (s.attempts.arr /\ \E j \in 1..Len(s.attempts.items) : s.attempts.items[j].nul)
    IN  IF \E i \in 1..Len(sessions) : broken(sessions[i])
        THEN Raise
        ELSE Ok(SliceFirst(SortAttempts(CollectAttempts(sessions)), ClampLimit(limit)))

(***************************************************************************)
(* The final-word reduction of the interactive view                        *)
(***************************************************************************)
\* the position of target among the keys of map, 0 when it has none
MapIndex(map, target) ==
    IF \E i \in 1..Len(map) : map[i].target = target
    THEN CHOOSE i \in 1..Len(map) : map[i].target = target
    ELSE 0

\* a push in place of map.set
MapSetAppend(map, target, a) == Append(map, [target |-> target, a |-> a])

\* map.set(target, a): a key already present keeps its position
MapSet(map, target, a) ==
    IF MapIndex(map, target) = 0
    THEN Append(map, [target |-> target, a |-> a])
    ELSE [map EXCEPT ![MapIndex(map, target)] = [target |-> target, a |-> a]]

\* ts > the time of prev in place of ts >=
NewerOnly(a, prev) ==
    LET ts == DateTime(a.timestamp)
        tp == DateTime(prev.timestamp)
    IN  IsNum(ts) /\ IsNum(tp) /\ ~Geq(tp, ts)

\* ts >= new Date(prev.timestamp || 0).getTime(): false when either is NaN
NotOlder(a, prev) ==
    LET ts == DateTime(a.timestamp)
        tp == DateTime(prev.timestamp)
    IN  IsNum(ts) /\ IsNum(tp) /\ Geq(ts, tp)

\* one pass of the loop body over attempt a
ReduceStep(map, a) ==
    LET target == TargetOf(a)
        at == MapIndex(map, target)
    IN  IF target = "" THEN map
        ELSE IF at = 0 \/ NotOlder(a, map[at].a) THEN MapSet(map, target, a)
        ELSE map

RECURSIVE ReduceAttempts(_, _)
ReduceAttempts(map, sAttempts) ==
    IF sAttempts = <<>> THEN map
    ELSE ReduceAttempts(ReduceStep(map, sAttempts[1]), Tail(sAttempts))

\* the entry emitted for one key of the map
FinalWordEntry(e) ==
    [target |-> e.target,
     recognizedText |-> e.a.recognizedText,
     score |-> IF IsNum(e.a.pronunciationScore) THEN e.a.pronunciationScore
               ELSE IF IsNum(e.a.score) THEN e.a.score ELSE Null,
     analysisSource |-> e.a.analysisSource]

\* the attempts the reduction reads: those of the last session of the list
LatestAttempts(progressSessions) ==
    LET sessionsForFinal == IF progressSessions.arr THEN progressSessions.items ELSE <<>>
    IN  IF sessionsForFinal = <<>> THEN <<>>
        ELSE LET latestSession == sessionsForFinal[Len(sessionsForFinal)]
             IN  IF ~latestSession.nul /\ latestSession.attempts.arr
                 THEN latestSession.attempts.items ELSE <<>>

\* a reduction that hands out the entries built before a null attempt
FinalWordAnalysisPartial(progressSessions) ==
    LET sAttempts == LatestAttempts(progressSessions)
        sound == {i \in 0..Len(sAttempts) : \A j \in 1..i : ~sAttempts[j].nul}
        reach == CHOOSE i \in sound : \A k \in sound : k <= i
        map == ReduceAttempts(<<>>, SubSeq(sAttempts, 1, reach))
    IN  [i \in 1..Len(map) |-> FinalWordEntry(map[i])]

\* the try block: a null attempt throws, and the catch leaves the empty list
FinalWordAnalysis(progressSessions) ==
    LET sAttempts == LatestAttempts(progressSessions)
    IN  IF \E i \in 1..Len(sAttempts) : sAttempts[i].nul
        THEN <<>>
        ELSE LET map == ReduceAttempts(<<>>, sAttempts)
             IN  [i \in 1..Len(map) |-> FinalWordEntry(map[i])]

(***************************************************************************)
(* The aggregate statistics of the JSON data API and of the PDF export     *)
(***************************************************************************)
TimelineKeep == 20
EasyFrom == 80
MediumFrom == 50

\* reading a field of a null session throws a TypeError
SessionsReadable(sessions) == \A i \in 1..Len(sessions) : ~sessions[i].nul

\* sessions.reduce((sum, s) => sum + (Number(s.totalAttempts) || 0), 0)
TotalAttemptsOf(sessions) == SumSeq([i \in 1..Len(sessions) |-> NumberOrZero(sessions[i].totalAttempts)])

SuccessfulAttemptsOf(sessions) == SumSeq([i \in 1..Len(sessions) |-> NumberOrZero(sessions[i].successfulAttempts)])

ScoreSumOf(sessions) == SumSeq([i \in 1..Len(sessions) |-> NumberOrZero(sessions[i].averageScore)])

\* totalAttempts > 0 ? Math.round((successfulAttempts / totalAttempts) * 100) : 0
SuccessRateOf(totalAttempts, successfulAttempts) ==
    IF totalAttempts.n > 0
    THEN MathRound(Ratio(successfulAttempts.n * 100 * totalAttempts.d, totalAttempts.n * successfulAttempts.d))
    ELSE 0

\* totalSessions > 0 ? Math.round(sum of averageScore / totalSessions) : 0
AverageScoreOf(sessions) ==
    IF Len(sessions) > 0
    THEN MathRound(Ratio(ScoreSumOf(sessions).n, ScoreSumOf(sessions).d * Len(sessions)))
    ELSE 0

\* a bucketing that leaves out the sessions without a numeric averageScore
BucketOfScored(s) ==
    IF ~IsNum(s.averageScore) THEN "none"
    ELSE IF Geq(s.averageScore, Num(EasyFrom)) THEN "easy"
    ELSE IF Geq(s.averageScore, Num(MediumFrom)) THEN "medium"
    ELSE "hard"

\* a bucketing whose thresholds are exclusive
BucketOfStrict(s) ==
    LET score == NumberOrZero(s.averageScore)
    IN  IF Less(Num(EasyFrom), score) THEN "easy"
        ELSE IF Less(Num(MediumFrom), score) THEN "medium"
        ELSE "hard"

\* the bucket one session is counted in
BucketOf(s) ==
    LET score == NumberOrZero(s.averageScore)
    IN  IF Geq(score, Num(EasyFrom)) THEN "easy"
        ELSE IF Geq(score, Num(MediumFrom)) THEN "medium"
        ELSE "hard"

DifficultyOf(sessions) ==
    [b \in {"easy", "medium", "hard"} |-> Cardinality({i \in 1..Len(sessions) : BucketOf(sessions[i]) = b})]

\* the label of the i-th session of the timeline: its date, or its ordinal
TimelineLabel(s, i) ==
    IF Truthy(s.sessionDate) /\ IsNum(DateOf(s.sessionDate))
    THEN [kind |-> "date", at |-> DateOf(s.sessionDate).n]
    ELSE [kind |-> "ordinal", at |-> i]

TimelineOf(sessions) ==
    LET last == SliceLast(sessions, TimelineKeep)
    IN  [labels |-> [i \in 1..Len(last) |-> TimelineLabel(last[i], i)],
         data |-> [i \in 1..Len(last) |-> MathRound(NumberOrZero(last[i].averageScore))]]

\* the body of the success answer of the JSON data API (lines 680-747)
AnalyticsData(sessions) ==
    LET totalSessions == Len(sessions)
        totalAttempts == TotalAttemptsOf(sessions)
        successfulAttempts == SuccessfulAttemptsOf(sessions)
        successRate == SuccessRateOf(totalAttempts, successfulAttempts)
        averageScore == AverageScoreOf(sessions)
    IN  [success |-> TRUE,
         sessions |-> sessions,
         stats |-> [totalSessions |-> totalSessions,
                    totalAttempts |-> totalAttempts,
                    successfulAttempts |-> successfulAttempts,
                    successRate |-> successRate,
                    averageScore |-> averageScore,
                    skillsProgress |-> [sessionsCount |-> totalSessions, averageScore |-> averageScore]],
         chartData |-> [timeline |-> TimelineOf(sessions),
                        skills |-> <<averageScore>>,
                        successRate |-> <<successRate, IF 100 - successRate > 0 THEN 100 - successRate ELSE 0>>,
                        difficulty |-> DifficultyOf(sessions)]]

(***************************************************************************)
(* The report of the PDF export                                            *)
(***************************************************************************)
TableRows == 8
RecentWindow == 5

\* formatDate(d): the day of a parseable date, the empty text otherwise
FormatDate(v) ==
    IF IsNum(DateOf(v)) THEN [text |-> "date", at |-> DateOf(v).n] ELSE [text |-> "", at |-> 0]

\* formatDate(d) || '-'
FormatDateOrDash(v) ==
    IF FormatDate(v).text = "" THEN [text |-> "-", at |-> 0] ELSE FormatDate(v)

\* the sessions with a time _t that is finite and positive
Dated(sessions) ==
    SelectSeq(sessions, LAMBDA s : IsNum(DateTime(s.sessionDate)) /\ DateTime(s.sessionDate).n > 0)

\* .sort((a, b) => a._t - b._t): ascending and stable, so that an element
\* lands behind the earlier ones and behind those of its time that came first
SortByDate(s) ==
    LET time(i) == DateTime(s[i].sessionDate).n
        rank(i) == Cardinality({j \in 1..Len(s) : time(j) < time(i) \/ (time(j) = time(i) /\ j < i)}) + 1
    IN  [p \in 1..Len(s) |-> s[CHOOSE i \in 1..Len(s) : rank(i) = p]]

WithDate(sessions) == SortByDate(Dated(sessions))

\* the scan replaces best only by a strictly higher averageScore: the first
\* session with the highest one; 0 for the empty list
BestIndex(sessions) ==
    LET score(i) == NumberOrZero(sessions[i].averageScore)
    IN  IF sessions = <<>> THEN 0
        ELSE CHOOSE i \in 1..Len(sessions) :
                /\ \A j \in 1..Len(sessions) : ~Less(score(i), score(j))
                /\ \A j \in 1..(i - 1) : Less(score(j), score(i))

\* the first session with the lowest averageScore; 0 for the empty list
WorstIndex(sessions) ==
    LET score(i) == NumberOrZero(sessions[i].averageScore)
    IN  IF sessions = <<>> THEN 0
        ELSE CHOOSE i \in 1..Len(sessions) :
                /\ \A j \in 1..Len(sessions) : ~Less(score(j), score(i))
                /\ \A j \in 1..(i - 1) : Less(score(i), score(j))

SessionCard(sessions, i) ==
    IF i = 0 THEN <<>>
    ELSE <<[date |-> FormatDateOrDash(sessions[i].sessionDate),
            averageScore |-> MathRound(NumberOrZero(sessions[i].averageScore)),
            successRate |-> MathRound(NumberOrZero(sessions[i].successRate))]>>

\* the rows of the recent-session table, newest first
LastSessionsOf(withDate) ==
    LET rows == Reverse(SliceLast(withDate, TableRows))
    IN  [idx \in 1..Len(rows) |->
            [index |-> Len(withDate) - (idx - 1),
             date |-> FormatDateOrDash(rows[idx].sessionDate),
             attempts |-> NumberOrZero(rows[idx].totalAttempts),
             successRate |-> MathRound(NumberOrZero(rows[idx].successRate)),
             averageScore |-> MathRound(NumberOrZero(rows[idx].averageScore)),
             duration |-> LET m == MathRound(NumberOrZero(rows[idx].duration)) IN IF m > 0 THEN m ELSE 0]]

\* Math.round(sum of field over recent / recent.length), 0 for no session
RecentMean(values) ==
    IF Len(values) > 0
    THEN MathRound(Ratio(SumSeq(values).n, SumSeq(values).d * Len(values)))
    ELSE 0

\* the variables bound into the template (lines 775-933)
ReportPayload(sessions, childName, childAge) ==
    LET totalSessions == Len(sessions)
        totalAttempts == TotalAttemptsOf(sessions)
        successfulAttempts == SuccessfulAttemptsOf(sessions)
        totalDuration == SumSeq([i \in 1..Len(sessions) |-> NumberOrZero(sessions[i].duration)])
        withDate == WithDate(sessions)
        recent == SliceLast(withDate, RecentWindow)
    IN  [childName |-> childName,
         childAge |-> childAge,
         totalSessions |-> totalSessions,
         totalAttempts |-> totalAttempts,
         successfulAttempts |-> successfulAttempts,
         failedAttempts |-> MaxZero(Sub(totalAttempts, successfulAttempts)),
         averageScore |-> AverageScoreOf(sessions),
         successRate |-> SuccessRateOf(totalAttempts, successfulAttempts),
         playMinutes |-> LET m == MathRound(totalDuration) IN IF m > 0 THEN m ELSE 0,
         avgSessionMinutes |-> IF totalSessions > 0
                               THEN MaxZero(Ratio(MathRound(Ratio(totalDuration.n * 10, totalDuration.d * totalSessions)), 10))
                               ELSE Num(0),
         firstSessionDate |-> IF withDate # <<>> THEN FormatDate(withDate[1].sessionDate) ELSE FormatDate(Undef),
         lastSessionDate |-> IF withDate # <<>> THEN FormatDate(withDate[Len(withDate)].sessionDate) ELSE FormatDate(Undef),
         bestSession |-> SessionCard(sessions, BestIndex(sessions)),
         worstSession |-> SessionCard(sessions, WorstIndex(sessions)),
         lastSessions |-> LastSessionsOf(withDate),
         recentAvgScore |-> RecentMean([i \in 1..Len(recent) |-> NumberOrZero(recent[i].averageScore)]),
         recentSuccessRate |-> RecentMean([i \in 1..Len(recent) |-> NumberOrZero(recent[i].successRate)])]

(***************************************************************************)
(* The output guard of the PDF export                                      *)
(***************************************************************************)
\* the bytes of '%PDF'
PdfSignature == <<37, 80, 68, 70>>

\* buf.toString('utf8') of single bytes: an ASCII byte is its character, any
\* other byte does not decode and becomes U+FFFD
Utf8(bytes) == [i \in 1..Len(bytes) |-> IF bytes[i] < 128 THEN bytes[i] ELSE 65533]

IsPdfFirstThree(pdfBuf) == Utf8(SliceFirst(pdfBuf, 3)) = SubSeq(PdfSignature, 1, 3)

\* pdfBuf.slice(0, 4).toString('utf8') === '%PDF'
IsPdf(pdfBuf) == Utf8(SliceFirst(pdfBuf, 4)) = PdfSignature

(***************************************************************************)
(* What the upstream may answer.  MaxSessions, MaxAttempts and MaxOver     *)
(* bound the lists the model explores.                                      *)
(***************************************************************************)
MaxSessions == 2
MaxAttempts == 2
MaxOver == 2

AttemptPool ==
    {Attempt("a", "", "", Num(1), Num(10), Undef, "r1"),
     Attempt("a", "", "", Num(2), Num(20), Num(25), "r2"),
     Attempt("", "b", "", Undef, Num(30), Undef, "r3"),
     Attempt("", "", "", Num(3), Num(40), Undef, "r4"),
     Attempt("", "b", "a", Num(2), Str, Undef, "r5"),
     Attempt("a", "", "", Num(2), Num(60), Undef, "r6"),
     NullAttempt}

AttemptLists == UNION {[1..n -> AttemptPool] : n \in 0..MaxAttempts}

SGood == [EmptySession EXCEPT !.totalAttempts = Num(10), !.successfulAttempts = Num(9),
                              !.averageScore = Num(90), !.duration = Num(5), !.sessionDate = Num(3)]
SBad == [EmptySession EXCEPT !.totalAttempts = Num(10), !.successfulAttempts = Num(3),
                             !.averageScore = Num(40), !.duration = Num(7), !.sessionDate = Num(1)]
SMid == [EmptySession EXCEPT !.totalAttempts = Num(8), !.successfulAttempts = Num(1),
                             !.averageScore = Num(50), !.sessionDate = Num(2), !.successRate = Ratio(25, 2)]
SOver == [EmptySession EXCEPT !.totalAttempts = Num(1), !.successfulAttempts = Num(2),
                              !.failedAttempts = Num(0), !.averageScore = Num(45)]
SSnake == [EmptySession EXCEPT !.total_attempts = Num(4), !.successful_attempts = Num(2),
                               !.failed_attempts = Num(1), !.average_score = Num(80),
                               !.session_date = Num(2), !.duration = Num(3)]
SText == [EmptySession EXCEPT !.totalAttempts = Str, !.successfulAttempts = Num(1),
                              !.averageScore = Str, !.sessionDate = Str]

SessionPool == {SGood, SBad, SMid, SOver, SSnake, SText, NullSession}

\* a session that carries attempts
Played(sessionDate, attempts) ==
    [EmptySession EXCEPT !.sessionDate = Num(sessionDate), !.totalAttempts = Num(Len(attempts)),
                         !.successfulAttempts = Num(Len(attempts)), !.averageScore = Num(60),
                         !.attempts = Array(attempts)]

\* lists that vary the counts and scores of the sessions
CountLists == UNION {[1..n -> SessionPool] : n \in 0..MaxSessions}

\* the attempts of lists played in one session, and split over two
PlayedOver(lists) ==
    {<<Played(1, as)>> : as \in lists}
    \cup UNION {{<<Played(1, SubSeq(as, 1, k)), Played(2, SubSeq(as, k + 1, Len(as)))>> :
                    k \in 0..Len(as)} : as \in lists}

\* lists that vary the attempts of one session or of two
PlayedLists == PlayedOver(AttemptLists)

\* lists about as long as the normalizer keeps, and longer: the oldest
\* session differs from the others
LongLists ==
    {[i \in 1..n |-> IF i = 1 THEN first ELSE rest] :
        n \in (KeepSessions - 1)..(KeepSessions + MaxOver),
        first \in {SGood, SBad, SOver}, rest \in {SGood, SMid}}

Handlers == {"view", "data", "pdf"}

\* the sessions embedded in the canonical progress record
Stores(h) ==
    {NotArray}
    \cup {Array(l) : l \in CountLists \cup LongLists}
    \cup (IF h = "pdf" THEN {} ELSE {Array(l) : l \in PlayedLists})

\* the lists /progress/attempts answers with
EndpointAttempts == {<<>>, <<FlatAttempt(Num(1), Attempt("a", "", "", Num(5), Num(50), Undef, "r9"))>>}

\* the buffers page.pdf() resolves to: a PDF head, its prefixes, and heads
\* with one byte replaced
PdfHead == PdfSignature \o <<45>>
Buffers ==
    {SubSeq(PdfHead, 1, n) : n \in 0..Len(PdfHead)}
    \cup {[PdfHead EXCEPT ![i] = b] : i \in 1..Len(PdfHead), b \in {60, 200}}

(***************************************************************************)
(* The state of one request                                                *)
(***************************************************************************)
VARIABLES
    handler,            \* the route requested
    debug,              \* req.query.debug === '1' || NODE_ENV !== 'production'
    store,              \* the sessions the canonical record holds upstream
    limit,              \* the limit handed to the attempt flattener
    pc,                 \* the await the handler is suspended at
    outcome,            \* how each upstream call ended
    calls,              \* the upstream and engine calls made, in order
    progress,           \* the handler's progress object
    child,              \* the child the view shows / the name the report shows
    sessions,           \* the handler's sessions
    attempts,           \* the view's attempts
    html,               \* the report bound into the template
    browser,            \* the headless browser
    pdfBuf,             \* the buffer page.pdf() resolved to
    error,              \* the exception on its way to the catch block
    response,           \* the response sent
    payload,            \* what the response carries
    escaped             \* an exception left the handler

vars == <<handler, debug, store, limit, pc, outcome, calls, progress, child, sessions,
          attempts, html, browser, pdfBuf, error, response, payload, escaped>>

\* the limit the view passes to the flattener (line 613)
ViewLimit == 50

NoProgress == [present |-> FALSE, sessions |-> NotArray, hasChild |-> FALSE]
NoResponse == [kind |-> "none", status |-> 0]

Init ==
    /\ handler \in Handlers
    /\ debug \in (IF handler = "pdf" THEN BOOLEAN ELSE {FALSE})
    /\ store \in Stores(handler)
    /\ limit = Num(ViewLimit)
    /\ pc = CASE handler = "view" -> "v_progress"
              [] handler = "data" -> "d_sessions"
              [] handler = "pdf" -> "p_sessions"
    /\ outcome = [progress |-> "none", sessions |-> "none", attempts |-> "none",
                  child |-> "none", pdf |-> "none"]
    /\ calls = <<IF handler = "view" THEN "progress" ELSE "sessions">>
    /\ progress = NoProgress
    /\ child = ""
    /\ sessions = NotArray
    /\ attempts = <<>>
    /\ html = <<>>
    /\ browser = "none"
    /\ pdfBuf = <<>>
    /\ error = "none"
    /\ response = NoResponse
    /\ payload = <<>>
    /\ escaped = FALSE

(***************************************************************************)
(* GET /child/:id/analytics, the interactive view.  Each action is the     *)
(* settling of the call the handler awaits and the code that runs up to    *)
(* the next await.                                                          *)
(***************************************************************************)
\* the catch block of the view (lines 652-658)
ViewCatch ==
    /\ response' = [kind |-> "redirect", status |-> 302]
    /\ payload' = [location |-> "/specialist/children", flash |-> "errorOccurred"]
    /\ pc' = "done"

\* lines 564-576: /progress/child settles
V_FetchProgress ==
    /\ pc = "v_progress"
    /\ \E o \in {"ok", "nosuccess", "throw"}, hasChild \in BOOLEAN :
        /\ o # "ok" => ~hasChild
        /\ outcome' = [outcome EXCEPT !.progress = o]
        /\ CASE o = "ok" ->
                  /\ progress' = [present |-> TRUE, sessions |-> store, hasChild |-> hasChild]
                  /\ calls' = Append(calls, "children")
                  /\ pc' = "v_child"
                  /\ UNCHANGED <<response, payload>>
             [] o = "nosuccess" ->
                  /\ response' = [kind |-> "redirect", status |-> 302]
                  /\ payload' = [location |-> "/specialist/children", flash |-> "not_found"]
                  /\ pc' = "done"
                  /\ UNCHANGED <<progress, calls>>
             [] o = "throw" ->
                  /\ ViewCatch
                  /\ UNCHANGED <<progress, calls>>
    /\ UNCHANGED <<handler, debug, store, limit, child, sessions, attempts, html, browser,
                   pdfBuf, error, escaped>>

\* lines 576-591: /children settles; a failure is only logged
V_FetchChild ==
    /\ pc = "v_child"
    /\ \E o \in {"ok", "empty", "throw"} :
        /\ outcome' = [outcome EXCEPT !.child = o]
        /\ child' = IF o = "ok" THEN "details"
                    ELSE IF progress.hasChild THEN "progress" ELSE "unknown"
    /\ calls' = Append(calls, "sessions")
    /\ pc' = "v_sessions"
    /\ UNCHANGED <<handler, debug, store, limit, progress, sessions, attempts, html, browser,
                   pdfBuf, error, response, payload, escaped>>

\* response.data.sessions of a successful /progress/sessions answer: the
\* stored sessions, or nothing
SessionsAnswer(o) == IF o = "ok" /\ store.arr THEN store ELSE Array(<<>>)

\* lines 591-604: /progress/sessions settles
V_FetchSessions ==
    /\ pc = "v_sessions"
    /\ \E o \in {"ok", "empty", "404", "err"} :
        /\ outcome' = [outcome EXCEPT !.sessions = o]
        /\ IF o \in {"ok", "empty"}
           THEN /\ sessions' = SessionsAnswer(o)
                /\ calls' = Append(calls, "attempts")
                /\ pc' = "v_attempts"
                /\ UNCHANGED <<response, payload>>
           ELSE LET normalized == NormalizeSessionsForCharts(progress.sessions)
                IN  IF normalized.ok
                    THEN /\ sessions' = Array(normalized.val)
                         /\ calls' = Append(calls, "attempts")
                         /\ pc' = "v_attempts"
                         /\ UNCHANGED <<response, payload>>
                    ELSE /\ ViewCatch
                         /\ UNCHANGED <<sessions, calls>>
    /\ UNCHANGED <<handler, debug, store, limit, progress, child, attempts, html, browser,
                   pdfBuf, error, escaped>>

\* lines 617-651: progress.sessions is overwritten, the final words are
\* reduced and the view is rendered
ViewRender(viewAttempts) ==
    LET shown == [progress EXCEPT !.sessions = sessions]
    IN  /\ progress' = shown
        /\ attempts' = viewAttempts
        /\ response' = [kind |-> "render", status |-> 200]
        /\ payload' = [child |-> child,
                       progress |-> shown,
                       attempts |-> viewAttempts,
                       finalWordAnalysis |-> FinalWordAnalysis(shown.sessions)]
        /\ pc' = "done"

\* lines 604-651: /progress/attempts settles
V_FetchAttempts ==
    /\ pc = "v_attempts"
    /\ \E o \in {"ok", "nosuccess", "404", "err"}, answer \in EndpointAttempts :
        /\ o # "ok" => answer = <<>>
        /\ outcome' = [outcome EXCEPT !.attempts = o]
        /\ IF o \in {"ok", "nosuccess"}
           THEN ViewRender(answer)
           ELSE LET flattened == FlattenAttemptsFromProgress(progress.sessions, limit.n)
                IN  IF flattened.ok
                    THEN ViewRender(flattened.val)
                    ELSE /\ ViewCatch
                         /\ UNCHANGED <<progress, attempts>>
    /\ UNCHANGED <<handler, debug, store, limit, calls, child, sessions, html, browser,
                   pdfBuf, error, escaped>>

(***************************************************************************)
(* GET /child/:id/analytics/data, the JSON data API                        *)
(***************************************************************************)
\* lines 680-756: the statistics and the answer; a throw is answered by the
\* catch block
DataRespond(list) ==
    /\ sessions' = Array(list)
    /\ IF SessionsReadable(list)
       THEN /\ response' = [kind |-> "json", status |-> 200]
            /\ payload' = AnalyticsData(list)
       ELSE /\ response' = [kind |-> "json", status |-> 500]
            /\ payload' = [success |-> FALSE, message |-> "TypeError"]
    /\ pc' = "done"

\* a handler that asks for the canonical record whatever /progress/sessions
\* answered
D_FetchSessionsEager ==
    /\ pc = "d_sessions"
    /\ \E o \in {"ok", "empty", "404", "err"} :
        /\ outcome' = [outcome EXCEPT !.sessions = o]
        /\ calls' = Append(calls, "progress")
        /\ IF o \in {"ok", "empty"}
           THEN DataRespond(SessionsAnswer(o).items)
           ELSE /\ pc' = "d_progress"
                /\ UNCHANGED <<sessions, response, payload>>
    /\ UNCHANGED <<handler, debug, store, limit, progress, child, attempts, html, browser,
                   pdfBuf, error, escaped>>

\* lines 668-675: /progress/sessions settles
D_FetchSessions ==
    /\ pc = "d_sessions"
    /\ \E o \in {"ok", "empty", "404", "err"} :
        /\ outcome' = [outcome EXCEPT !.sessions = o]
        /\ IF o \in {"ok", "empty"}
           THEN /\ DataRespond(SessionsAnswer(o).items)
                /\ UNCHANGED calls
           ELSE /\ calls' = Append(calls, "progress")
                /\ pc' = "d_progress"
                /\ UNCHANGED <<sessions, response, payload>>
    /\ UNCHANGED <<handler, debug, store, limit, progress, child, attempts, html, browser,
                   pdfBuf, error, escaped>>

\* progressResponse?.data?.progress: an answer without success carries none
ProgressAnswer(o) ==
    IF o = "ok" THEN [present |-> TRUE, sessions |-> store, hasChild |-> TRUE] ELSE NoProgress

\* lines 675-756: the fallback /progress/child settles
D_FetchProgress ==
    /\ pc = "d_progress"
    /\ \E o \in {"ok", "nosuccess", "throw"} :
        /\ outcome' = [outcome EXCEPT !.progress = o]
        /\ IF o = "throw"
           THEN /\ response' = [kind |-> "json", status |-> 500]
                /\ payload' = [success |-> FALSE, message |-> "http"]
                /\ pc' = "done"
                /\ UNCHANGED <<progress, sessions>>
           ELSE LET normalized == NormalizeSessionsForCharts(ProgressAnswer(o).sessions)
                IN  /\ progress' = ProgressAnswer(o)
                    /\ IF normalized.ok
                       THEN DataRespond(normalized.val)
                       ELSE /\ response' = [kind |-> "json", status |-> 500]
                            /\ payload' = [success |-> FALSE, message |-> "TypeError"]
                            /\ pc' = "done"
                            /\ UNCHANGED sessions
    /\ UNCHANGED <<handler, debug, store, limit, calls, child, attempts, html, browser,
                   pdfBuf, error, escaped>>

(***************************************************************************)
(* GET /child/:id/analytics/pdf, the PDF export                            *)
(***************************************************************************)
\* the length of the buffer head quoted in the verbose failure message
HeadLength == 80

\* the catch block (lines 978-987), the verbose message quoting the head of
\* a refused buffer (lines 963-968): once the response has been sent,
\* res.status(500).send throws and the exception leaves the handler
PdfCatch(err, sent) ==
    /\ IF sent.kind = "none"
       THEN /\ response' = [kind |-> "text", status |-> 500]
            /\ payload' = [body |-> "Failed to generate PDF",
                           message |-> IF debug THEN err ELSE "",
                           head |-> IF debug /\ err = "NotPdf"
                                    THEN Utf8(SliceFirst(pdfBuf, HeadLength)) ELSE <<>>]
            /\ escaped' = escaped
       ELSE /\ response' = sent
            /\ UNCHANGED payload
            /\ escaped' = TRUE
    /\ error' = err
    /\ pc' = "done"

\* lines 775-792: the statistics are computed, then /children is called
PdfStats(list) ==
    IF SessionsReadable(list)
    THEN /\ sessions' = Array(list)
         /\ calls' = Append(calls, "children")
         /\ pc' = "p_child"
         /\ UNCHANGED <<error, response, payload, escaped>>
    ELSE /\ PdfCatch("TypeError", response)
         /\ UNCHANGED <<sessions, calls>>

\* a handler that asks /progress/sessions a second time before it falls back
P_FetchSessionsRetry ==
    /\ pc = "p_sessions"
    /\ \E o \in {"ok", "empty", "404", "err"} :
        /\ outcome' = [outcome EXCEPT !.sessions = o]
        /\ IF o \in {"ok", "empty"}
           THEN PdfStats(SessionsAnswer(o).items)
           ELSE /\ calls' = calls \o <<"sessions", "progress">>
                /\ pc' = "p_progress"
                /\ UNCHANGED <<sessions, error, response, payload, escaped>>
    /\ UNCHANGED <<handler, debug, store, limit, progress, child, attempts, html, browser, pdfBuf>>

\* lines 767-770: /progress/sessions settles
P_FetchSessions ==
    /\ pc = "p_sessions"
    /\ \E o \in {"ok", "empty", "404", "err"} :
        /\ outcome' = [outcome EXCEPT !.sessions = o]
        /\ IF o \in {"ok", "empty"}
           THEN PdfStats(SessionsAnswer(o).items)
           ELSE /\ calls' = Append(calls, "progress")
                /\ pc' = "p_progress"
                /\ UNCHANGED <<sessions, error, response, payload, escaped>>
    /\ UNCHANGED <<handler, debug, store, limit, progress, child, attempts, html, browser, pdfBuf>>

\* lines 770-773: the fallback /progress/child settles
P_FetchProgress ==
    /\ pc = "p_progress"
    /\ \E o \in {"ok", "nosuccess", "throw"} :
        /\ outcome' = [outcome EXCEPT !.progress = o]
        /\ IF o = "throw"
           THEN /\ PdfCatch("http", response)
                /\ UNCHANGED <<progress, sessions, calls>>
           ELSE LET normalized == NormalizeSessionsForCharts(ProgressAnswer(o).sessions)
                IN  /\ progress' = ProgressAnswer(o)
                    /\ IF normalized.ok
                       THEN PdfStats(normalized.val)
                       ELSE /\ PdfCatch("TypeError", response)
                            /\ UNCHANGED <<sessions, calls>>
    /\ UNCHANGED <<handler, debug, store, limit, child, attempts, html, browser, pdfBuf>>

\* lines 792-892: /children settles (a failure is ignored), the report is
\* computed and the template is rendered
P_FetchChild ==
    /\ pc = "p_child"
    /\ \E o \in {"ok", "throw"} :
        /\ outcome' = [outcome EXCEPT !.child = o]
        /\ child' = IF o = "ok" THEN "name" ELSE ""
    /\ calls' = Append(calls, "renderFile")
    /\ pc' = "p_html"
    /\ UNCHANGED <<handler, debug, store, limit, progress, sessions, attempts, html, browser,
                   pdfBuf, error, response, payload, escaped>>

\* lines 892-937: ejs.renderFile settles, then the browser is launched
P_RenderHtml ==
    /\ pc = "p_html"
    /\ \/ /\ html' = ReportPayload(sessions.items, IF child = "" THEN "---" ELSE child,
                                   IF child = "" THEN Null ELSE Num(6))
          /\ calls' = Append(calls, "launch")
          /\ pc' = "p_launch"
          /\ UNCHANGED <<error, response, payload, escaped>>
       \/ /\ PdfCatch("RenderFileError", response)
          /\ UNCHANGED <<html, calls>>
    /\ UNCHANGED <<handler, debug, store, limit, outcome, progress, child, sessions, attempts,
                   browser, pdfBuf>>

\* lines 937-943: puppeteer.launch settles
P_Launch ==
    /\ pc = "p_launch"
    /\ \/ /\ browser' = "open"
          /\ calls' = Append(calls, "newPage")
          /\ pc' = "p_newpage"
          /\ UNCHANGED <<error, response, payload, escaped>>
       \/ /\ PdfCatch("LaunchError", response)
          /\ UNCHANGED <<browser, calls>>
    /\ UNCHANGED <<handler, debug, store, limit, outcome, progress, child, sessions, attempts,
                   html, pdfBuf>>

\* the finally block (lines 975-977): browser.close() is called and awaited
Finally(err) ==
    /\ error' = err
    /\ calls' = Append(calls, "close")
    /\ browser' = "closing"
    /\ pc' = "p_close"

\* a page call that resolves to nothing settles: the next call is made, or
\* the rejection runs the finally block
PageSettles(next, nextCall) ==
    /\ \/ /\ calls' = Append(calls, nextCall)
          /\ pc' = next
          /\ UNCHANGED <<browser, error>>
       \/ Finally("PageError")
    /\ UNCHANGED <<handler, debug, store, limit, outcome, progress, child, sessions, attempts,
                   html, pdfBuf, response, payload, escaped>>

\* line 943: browser.newPage settles
P_NewPage ==
    /\ pc = "p_newpage"
    /\ PageSettles("p_content", "setContent")

\* line 944: page.setContent settles
P_SetContent ==
    /\ pc = "p_content"
    /\ PageSettles("p_media", "emulateMediaType")

\* line 947: page.emulateMediaType settles
P_EmulateMedia ==
    /\ pc = "p_media"
    /\ PageSettles("p_pdf", "pdf")

\* lines 958-974, without the enclosing finally: a buffer that fails the
\* guard goes straight to the catch block
P_PdfNoFinally ==
    /\ pc = "p_pdf"
    /\ \/ \E buf \in Buffers :
            /\ pdfBuf' = buf
            /\ outcome' = [outcome EXCEPT !.pdf = "buffer"]
            /\ IF IsPdf(buf)
               THEN /\ response' = [kind |-> "pdf", status |-> 200]
                    /\ payload' = [contentType |-> "application/pdf", length |-> Len(buf), body |-> buf]
                    /\ UNCHANGED escaped
                    /\ Finally("none")
               ELSE /\ PdfCatch("NotPdf", response)
                    /\ UNCHANGED <<calls, browser>>
       \/ /\ outcome' = [outcome EXCEPT !.pdf = "throw"]
          /\ Finally("PageError")
          /\ UNCHANGED <<pdfBuf, response, payload, escaped>>
    /\ UNCHANGED <<handler, debug, store, limit, progress, child, sessions, attempts, html>>

\* lines 949-977: page.pdf settles; the buffer passes the guard and is sent,
\* or the guard throws; either way the finally block runs
P_Pdf ==
    /\ pc = "p_pdf"
    /\ \/ \E buf \in Buffers :
            /\ pdfBuf' = buf
            /\ outcome' = [outcome EXCEPT !.pdf = "buffer"]
            /\ IF IsPdf(buf)
               THEN /\ response' = [kind |-> "pdf", status |-> 200]
                    /\ payload' = [contentType |-> "application/pdf", length |-> Len(buf), body |-> buf]
                    /\ Finally("none")
               ELSE /\ UNCHANGED <<response, payload>>
                    /\ Finally("NotPdf")
       \/ /\ outcome' = [outcome EXCEPT !.pdf = "throw"]
          /\ Finally("PageError")
          /\ UNCHANGED <<pdfBuf, response, payload>>
    /\ UNCHANGED <<handler, debug, store, limit, progress, child, sessions, attempts,
                   html, escaped>>

\* lines 976-987: browser.close settles; an exception pending from the try
\* block, or thrown by close itself, reaches the catch block
P_Close ==
    /\ pc = "p_close"
    /\ \/ /\ browser' = "closed"
          /\ IF error = "none"
             THEN /\ pc' = "done"
                  /\ UNCHANGED <<error, response, payload, escaped>>
             ELSE PdfCatch(error, response)
       \/ /\ browser' = "closeFailed"
          /\ PdfCatch("CloseError", response)
    /\ UNCHANGED <<handler, debug, store, limit, outcome, calls, progress, child, sessions,
                   attempts, html, pdfBuf>>

Next ==
    \/ V_FetchProgress \/ V_FetchChild \/ V_FetchSessions \/ V_FetchAttempts
    \/ D_FetchSessions \/ D_FetchProgress
    \/ P_FetchSessions \/ P_FetchProgress \/ P_FetchChild \/ P_RenderHtml \/ P_Launch
    \/ P_NewPage \/ P_SetContent \/ P_EmulateMedia \/ P_Pdf \/ P_Close

Spec == Init /\ [][Next]_vars

(***************************************************************************)
(* The normalizer and the flattener called on their own: store is the      *)
(* argument progressSessions, limit the second argument of the flattener   *)
(* (Undef when the caller gives none), sessions and attempts the value      *)
(* returned, error the exception thrown.                                    *)
(***************************************************************************)
Functions == {"_normalizeSessionsForCharts", "_flattenAttemptsFromProgress"}

\* sessions whose counts contradict each other or are negative, and an
\* element without any field (an empty object, or a primitive)
SDerived == [EmptySession EXCEPT !.totalAttempts = Num(1), !.successfulAttempts = Num(2)]
SNegative == [EmptySession EXCEPT !.totalAttempts = Num(-2), !.successfulAttempts = Num(-1)]

\* a session that reports no failed attempt among its five
SZeroFailed == [EmptySession EXCEPT !.totalAttempts = Num(5), !.successfulAttempts = Num(3),
                                    !.failedAttempts = Num(0)]

\* n sessions, the i-th held on day i with i attempts
DatedList(n) ==
    [i \in 1..n |-> [EmptySession EXCEPT !.sessionDate = Num(i), !.totalAttempts = Num(i)]]

NormalizerArguments ==
    {NotArray}
    \cup {Array(l) : l \in UNION {[1..n -> SessionPool \cup {SDerived, SNegative, SZeroFailed, EmptySession}] :
                                     n \in 0..MaxSessions}}
    \cup {Array(l) : l \in LongLists}
    \cup {Array(DatedList(n)) : n \in (KeepSessions - 1)..(KeepSessions + MaxOver)}

\* an attempt whose timestamp does not parse as a date
AUndated == Attempt("c", "", "", Str, Num(50), Undef, "r6")

\* n attempts of one session, the i-th made at time i
ManyAttempts(n) ==
    <<Played(1, [i \in 1..n |-> Attempt("a", "", "", Num(i), Num(10), Undef, "r")])>>

FlattenerArguments ==
    {NotArray, Array(<<NullSession>>), Array(<<SGood>>)}
    \cup {Array(l) : l \in PlayedOver(UNION {[1..n -> AttemptPool \cup {AUndated}] : n \in 0..MaxAttempts})}
    \cup {Array(ManyAttempts(n)) : n \in {DefaultLimit + MaxOver, MaxLimit + MaxOver}}

\* the limits a caller passes: none, and integers around the two ends of
\* the clamp
Limits ==
    {Undef} \cup {Num(n) : n \in {-1, 0, 1, 2, DefaultLimit, MaxLimit, MaxLimit + 1}}

FnInit ==
    /\ handler \in Functions
    /\ debug = FALSE
    /\ store \in (IF handler = "_normalizeSessionsForCharts"
                  THEN NormalizerArguments ELSE FlattenerArguments)
    /\ limit \in (IF handler = "_flattenAttemptsFromProgress" THEN Limits ELSE {Undef})
    /\ pc = "call"
    /\ outcome = [progress |-> "none", sessions |-> "none", attempts |-> "none",
                  child |-> "none", pdf |-> "none"]
    /\ calls = <<>>
    /\ progress = NoProgress
    /\ child = ""
    /\ sessions = NotArray
    /\ attempts = <<>>
    /\ html = <<>>
    /\ browser = "none"
    /\ pdfBuf = <<>>
    /\ error = "none"
    /\ response = NoResponse
    /\ payload = <<>>
    /\ escaped = FALSE

\* lines 498-519: _normalizeSessionsForCharts(store)
CallNormalizer ==
    /\ pc = "call"
    /\ handler = "_normalizeSessionsForCharts"
    /\ LET normalized == NormalizeSessionsForCharts(store)
       IN  IF normalized.ok
           THEN /\ sessions' = Array(normalized.val)
                /\ pc' = "returned"
                /\ UNCHANGED error
           ELSE /\ error' = "TypeError"
                /\ pc' = "thrown"
                /\ UNCHANGED sessions
    /\ UNCHANGED <<handler, debug, store, limit, outcome, calls, progress, child, attempts,
                   html, browser, pdfBuf, response, payload, escaped>>

\* lines 521-556: _flattenAttemptsFromProgress(store, limit); the default of
\* the parameter stands in for a limit that is not given
CallFlattener ==
    /\ pc = "call"
    /\ handler = "_flattenAttemptsFromProgress"
    /\ LET flattened == FlattenAttemptsFromProgress(store, IF limit.k = "undef" THEN DefaultLimit
                                                          ELSE limit.n)
       IN  IF flattened.ok
           THEN /\ attempts' = flattened.val
                /\ pc' = "returned"
                /\ UNCHANGED error
           ELSE /\ error' = "TypeError"
                /\ pc' = "thrown"
                /\ UNCHANGED attempts
    /\ UNCHANGED <<handler, debug, store, limit, outcome, calls, progress, child, sessions,
                   html, browser, pdfBuf, response, payload, escaped>>

FnNext == CallNormalizer \/ CallFlattener

FnSpec == FnInit /\ [][FnNext]_vars

(***************************************************************************)
(* GET /profile and GET /account: two fetches are issued together and the  *)
(* handler awaits Promise.all of them.  store holds what each fetch         *)
(* delivers when it succeeds, outcome how each fetch has settled.           *)
(***************************************************************************)
Pages == {"profile", "account"}

\* the stats of /specialist/dashboard: none, or three counters
StatValues == {Undef, Num(0), Num(3), Str}
DashboardStats ==
    {[nul |-> TRUE, children |-> Undef, parents |-> Undef, sessions |-> Undef]}
    \cup {[nul |-> FALSE, children |-> c, parents |-> p, sessions |-> s] :
             c \in StatValues, p \in StatValues, s \in StatValues}

\* the parents of /specialists/parents and of /specialists/search-parent
ParentLists == {<<>>, <<"p1">>, <<"p1", "p2">>}

PagesInit ==
    /\ handler \in Pages
    /\ debug = FALSE
    /\ store \in (IF handler = "profile"
                  THEN [first : {"user"}, second : DashboardStats]
                  ELSE [first : ParentLists, second : ParentLists])
    /\ limit = Undef
    /\ pc = "all"
    /\ outcome = [first |-> "pending", second |-> "pending"]
    /\ calls = IF handler = "profile"
               THEN <<"/auth/me", "/specialist/dashboard">>
               ELSE <<"/specialists/parents", "/specialists/search-parent">>
    /\ progress = NoProgress
    /\ child = ""
    /\ sessions = NotArray
    /\ attempts = <<>>
    /\ html = <<>>
    /\ browser = "none"
    /\ pdfBuf = <<>>
    /\ error = "none"
    /\ response = NoResponse
    /\ payload = <<>>
    /\ escaped = FALSE

\* typeof dashboardStats.f === 'number' ? dashboardStats.f : 0
StatOf(settled, value) ==
    IF settled = "ok" /\ ~store.second.nul /\ IsNum(value) THEN value ELSE Num(0)

\* lines 398-411: the profile page
ProfilePage(settled) ==
    [view |-> "specialist/profile",
     user |-> IF settled.first = "ok" THEN store.first ELSE "req.user",
     stats |-> [children |-> StatOf(settled.second, store.second.children),
                parents |-> StatOf(settled.second, store.second.parents),
                sessions |-> StatOf(settled.second, store.second.sessions)]]

\* lines 297-305: the account page
AccountPage(settled) ==
    [view |-> "specialist/account",
     linkedParents |-> IF settled.first = "ok" THEN store.first ELSE <<>>,
     allParents |-> IF settled.second = "ok" THEN store.second ELSE <<>>]

\* await Promise.all([first, second]) once the fetches stand as settled: it
\* rejects as soon as one fetch is rejected, and the catch block redirects;
\* it resolves when both are fulfilled, and the page is rendered
PromiseAll(settled, page) ==
    IF pc # "all" \/ ("throw" \notin {settled.first, settled.second}
                       /\ "pending" \in {settled.first, settled.second})
    THEN UNCHANGED <<pc, response, payload>>
    ELSE IF "throw" \in {settled.first, settled.second}
    THEN /\ response' = [kind |-> "redirect", status |-> 302]
         /\ payload' = [location |-> "/specialist", flash |-> "errorOccurred"]
         /\ pc' = "done"
    ELSE /\ response' = [kind |-> "render", status |-> 200]
         /\ payload' = page
         /\ pc' = "done"

\* the ways a fetch settles: fulfilled with success, fulfilled without, rejected
Settlements == {"ok", "nosuccess", "throw"}

\* line 394: /auth/me settles
Profile_Me ==
    /\ handler = "profile"
    /\ outcome.first = "pending"
    /\ \E o \in Settlements :
        /\ outcome' = [outcome EXCEPT !.first = o]
        /\ PromiseAll(outcome', ProfilePage(outcome'))
    /\ UNCHANGED <<handler, debug, store, limit, calls, progress, child, sessions, attempts,
                   html, browser, pdfBuf, error, escaped>>

\* line 395: /specialist/dashboard settles
Profile_Dashboard ==
    /\ handler = "profile"
    /\ outcome.second = "pending"
    /\ \E o \in Settlements :
        /\ outcome' = [outcome EXCEPT !.second = o]
        /\ PromiseAll(outcome', ProfilePage(outcome'))
    /\ UNCHANGED <<handler, debug, store, limit, calls, progress, child, sessions, attempts,
                   html, browser, pdfBuf, error, escaped>>

\* line 293: /specialists/parents settles
Account_Linked ==
    /\ handler = "account"
    /\ outcome.first = "pending"
    /\ \E o \in Settlements :
        /\ outcome' = [outcome EXCEPT !.first = o]
        /\ PromiseAll(outcome', AccountPage(outcome'))
    /\ UNCHANGED <<handler, debug, store, limit, calls, progress, child, sessions, attempts,
                   html, browser, pdfBuf, error, escaped>>

\* line 294: /specialists/search-parent settles
Account_Available ==
    /\ handler = "account"
    /\ outcome.second = "pending"
    /\ \E o \in Settlements :
        /\ outcome' = [outcome EXCEPT !.second = o]
        /\ PromiseAll(outcome', AccountPage(outcome'))
    /\ UNCHANGED <<handler, debug, store, limit, calls, progress, child, sessions, attempts,
                   html, browser, pdfBuf, error, escaped>>

PagesNext == Profile_Me \/ Profile_Dashboard \/ Account_Linked \/ Account_Available

PagesSpec == PagesInit /\ [][PagesNext]_vars

(***************************************************************************)
(* Properties                                                              *)
(***************************************************************************)
Done == pc = "done"

\* the buffer begins with the four bytes % P D F
HasSignature(buf) ==
    Len(buf) >= 4 /\ buf[1] = 37 /\ buf[2] = 80 /\ buf[3] = 68 /\ buf[4] = 70

\* C1: the PDF export sends a 200 response carrying the buffer only if the
\* buffer begins with '%PDF'; for any other buffer the request ends with a
\* 500 response and the buffer is never sent as a success.
C1_OnlyPdfIsSent ==
    /\ response.kind = "pdf" =>
          /\ response.status = 200
          /\ payload.body = pdfBuf
          /\ HasSignature(pdfBuf)
    /\ (outcome.pdf = "buffer" /\ ~HasSignature(pdfBuf)) =>
          /\ response.kind # "pdf"
          /\ Done => (response.kind = "text" /\ response.status = 500)

\* a buffer that misses the signature by its fourth byte was refused
C1_Witness ==
    /\ Done
    /\ outcome.pdf = "buffer"
    /\ Len(pdfBuf) >= 4
    /\ SubSeq(pdfBuf, 1, 3) = <<37, 80, 68>>
    /\ pdfBuf[4] # 70
    /\ response.status = 500

\* C2: once the browser has been launched, browser.close() has been called
\* by the time the handler returns, on every exit path.
C2_BrowserClosedOnExit ==
    (Done /\ browser # "none") =>
        /\ browser \in {"closed", "closeFailed"}
        /\ Cardinality({i \in 1..Len(calls) : calls[i] = "close"}) = 1

\* the validity guard threw, and the browser was closed before the 500
C2_Witness ==
    /\ Done
    /\ error = "NotPdf"
    /\ browser = "closed"
    /\ response.status = 500

\* C3: on each of the three surfaces a canonical progress record that
\* signals failure (success=false, or a throw) fails the request: the view
\* redirects, the JSON and PDF surfaces answer 500.
C3_CanonicalFailureFailsRequest ==
    (Done /\ outcome.progress \in {"nosuccess", "throw"}) =>
        /\ handler = "view" => response.kind = "redirect"
        /\ handler \in {"data", "pdf"} => response.status = 500

\* the sessions the normalizer yields for the embedded sessions of the
\* canonical record, element by element
NormalizedStore ==
    LET items == IF store.arr THEN store.items ELSE <<>>
        from == IF Len(items) > KeepSessions THEN Len(items) - KeepSessions ELSE 0
    IN  [i \in 1..(Len(items) - from) |-> NormalizeOne(items[from + i])]

\* C4: in the view, when the canonical record was fetched and the
\* sessions-listing endpoint throws (404 or other), nothing is propagated:
\* the sessions are the normalized embedded sessions and the handler goes on
\* to the attempts step.
C4_SessionsFailureAbsorbed ==
    (handler = "view" /\ outcome.progress = "ok" /\ outcome.sessions \in {"404", "err"}) =>
        /\ pc = "v_attempts" \/ outcome.attempts # "none"
        /\ sessions = Array(NormalizedStore)

\* C5: in the view, whenever the canonical record is fetched successfully
\* the handler ends by rendering the analytics view, whatever the child,
\* sessions and attempts endpoints do.
C5_ViewAlwaysRenders ==
    (handler = "view" /\ Done /\ outcome.progress = "ok") => response.kind = "render"

\* the well-formed attempts of the latest embedded session
LatestStored ==
    LET items == IF store.arr THEN store.items ELSE <<>>
    IN  IF items = <<>> \/ items[Len(items)].nul \/ ~items[Len(items)].attempts.arr
        THEN <<>>
        ELSE items[Len(items)].attempts.items

\* the final words hold one entry for each target of observed, each the
\* chronologically last attempt on its target
OneEntryPerTarget(final, observed) ==
    LET targets == {TargetOf(observed[i]) : i \in 1..Len(observed)} \ {""}
        time(i) == DateTime(observed[i].timestamp)
    IN  /\ Len(final) = Cardinality(targets)
        /\ \A t \in targets : \E e \in 1..Len(final), i \in 1..Len(observed) :
              /\ final[e].target = t
              /\ TargetOf(observed[i]) = t
              /\ final[e].recognizedText = observed[i].recognizedText
              /\ \A j \in 1..Len(observed) :
                    TargetOf(observed[j]) = t => Geq(time(i), time(j))

\* C6: finalWordAnalysis holds exactly one entry per distinct non-empty
\* target among the attempts of the latest session, each the chronologically
\* last attempt on it, also when the sessions come from the fallback
\* normalization of the canonical record's embedded sessions.
C6_FinalWordsInFallback ==
    (/\ handler = "view"
     /\ response.kind = "render"
     /\ outcome.sessions \in {"404", "err"}
     /\ \A i \in 1..Len(LatestStored) : ~LatestStored[i].nul)
        => OneEntryPerTarget(payload.finalWordAnalysis, LatestStored)

\* C7: the final-word reduction never emits two entries with the same
\* target and never emits an entry with an empty target.
C7_FinalWordsDistinct ==
    response.kind = "render" =>
        LET final == payload.finalWordAnalysis
        IN  /\ \A i, j \in 1..Len(final) : i # j => final[i].target # final[j].target
            /\ \A i \in 1..Len(final) : final[i].target # ""

\* the latest session held two attempts on one target and one entry came out
C7_Witness ==
    /\ response.kind = "render"
    /\ outcome.sessions = "ok"
    /\ LET observed == LatestAttempts(payload.progress.sessions)
       IN  /\ Len(observed) = 2
           /\ TargetOf(observed[1]) = "a"
           /\ TargetOf(observed[2]) = "a"
    /\ Len(payload.finalWordAnalysis) = 1

\* the counts the normalizer reads from embedded session s
StoredTotal(s) == NumberOrZero(Coalesce(Coalesce(s.totalAttempts, s.total_attempts), Num(0)))
StoredSuccessful(s) == NumberOrZero(Coalesce(Coalesce(s.successfulAttempts, s.successful_attempts), Num(0)))

\* the JSON data API answered from the canonical record after a 404 of the
\* sessions-listing endpoint
DataFromCanonical ==
    /\ handler = "data"
    /\ outcome.sessions = "404"
    /\ outcome.progress = "ok"
    /\ response.status = 200

\* the stats count the last n embedded sessions
StatsOverLast(n) ==
    LET items == IF store.arr THEN store.items ELSE <<>>
        from == Len(items) - n
    IN  /\ payload.stats.totalSessions = n
        /\ SameNumber(payload.stats.totalAttempts,
                      SumSeq([i \in 1..n |-> StoredTotal(items[from + i])]))
        /\ SameNumber(payload.stats.successfulAttempts,
                      SumSeq([i \in 1..n |-> StoredSuccessful(items[from + i])]))

\* C8 as stated: after a 404 of the sessions-listing endpoint the stats are
\* the aggregates of all of the canonical record's embedded sessions, for
\* every length of the list.
C8_AllEmbeddedCounted ==
    DataFromCanonical => StatsOverLast(Len(store.items))

\* C8 as amended: the stats are the aggregates of the last min(n, 30) of
\* the n embedded sessions.
C8_LastThirtyCounted ==
    DataFromCanonical =>
        StatsOverLast(IF Len(store.items) > KeepSessions THEN KeepSessions ELSE Len(store.items))

\* the canonical record held more than 30 sessions, the oldest unlike the rest
C8_Witness ==
    /\ DataFromCanonical
    /\ Len(store.items) > KeepSessions
    /\ store.items[1] # store.items[2]

\* the aggregate of a statistics computation that went through
RateComputed ==
    \/ handler = "data" /\ response.kind = "json" /\ response.status = 200
    \/ handler = "pdf" /\ html # <<>>

\* C9: for every non-empty session list the aggregate successRate lies in
\* [0,100] and equals round(successfulAttempts/totalAttempts*100) when the
\* summed totalAttempts > 0, and 0 otherwise.
C9_SuccessRateInRange ==
    (RateComputed /\ Len(sessions.items) > 0) =>
        LET stats == IF handler = "data" THEN payload.stats ELSE html
        IN  /\ stats.successRate \in 0..100
            /\ stats.successRate =
                  IF stats.totalAttempts.n > 0
                  THEN (2 * 100 * stats.successfulAttempts.n + stats.totalAttempts.n)
                          \div (2 * stats.totalAttempts.n)
                  ELSE 0

\* C10: the difficulty histogram of the JSON data API sums to totalSessions,
\* sessions with a missing or non-numeric averageScore included.
C10_DifficultyCountsAll ==
    (handler = "data" /\ response.kind = "json" /\ response.status = 200) =>
        LET difficulty == payload.chartData.difficulty
        IN  /\ payload.stats.totalSessions = Len(payload.sessions)
            /\ difficulty["easy"] + difficulty["medium"] + difficulty["hard"]
                  = payload.stats.totalSessions

\* a session without averageScore and one with a non-numeric averageScore
\* were counted
C10_Witness ==
    /\ handler = "data"
    /\ response.kind = "json"
    /\ response.status = 200
    /\ \E i, j \in 1..Len(payload.sessions) :
          /\ payload.sessions[i].averageScore.k = "undef"
          /\ payload.sessions[j].averageScore.k = "str"
    /\ payload.chartData.difficulty["hard"] >= 2

\* _normalizeSessionsForCharts has returned
Normalized == handler = "_normalizeSessionsForCharts" /\ pc = "returned"

\* neither spelling of failedAttempts is present in raw session s
FailedNotSupplied(s) == s.failedAttempts.k = "undef" /\ s.failed_attempts.k = "undef"

\* C11: for every raw session in which failedAttempts was not supplied, the
\* summary the normalizer produces satisfies
\* failedAttempts + successfulAttempts = totalAttempts.
C11_DerivedFailedAddsUp ==
    Normalized =>
        \A i \in 1..Len(sessions.items) :
            FailedNotSupplied(NormalizerInput(store)[i]) =>
                SameNumber(Add(sessions.items[i].failedAttempts, sessions.items[i].successfulAttempts),
                           sessions.items[i].totalAttempts)

\* C12: every summary the normalizer produces has successRate in [0,100]
\* and totalAttempts, successfulAttempts and failedAttempts >= 0, whatever
\* the raw session holds.
C12_SummaryInRange ==
    Normalized =>
        \A i \in 1..Len(sessions.items) :
            LET summary == sessions.items[i]
            IN  /\ Geq(summary.successRate, Num(0))
                /\ Geq(Num(100), summary.successRate)
                /\ Geq(summary.totalAttempts, Num(0))
                /\ Geq(summary.successfulAttempts, Num(0))
                /\ Geq(summary.failedAttempts, Num(0))

\* C13: the normalizer raises no error for any input: it returns the empty
\* sequence for a non-array and one summary per kept element for an array,
\* null elements included.
C13_NormalizerTotal ==
    (handler = "_normalizeSessionsForCharts" /\ pc # "call") =>
        /\ pc = "returned"
        /\ ~store.arr => sessions = Array(<<>>)
        /\ store.arr => Len(sessions.items) = Len(NormalizerInput(store))

\* _flattenAttemptsFromProgress has returned
Flattened == handler = "_flattenAttemptsFromProgress" /\ pc = "returned"

\* the time an attempt sorts by when an absent or invalid timestamp counts as 0
TimeOrZero(a) == IF IsNum(DateTime(a.timestamp)) THEN DateTime(a.timestamp).n ELSE 0

\* C14: the output of the flattener is in non-increasing order of
\* timestamp, an absent or unparseable timestamp counting as 0 and so
\* sorting after every positive one; sorting the output again changes
\* nothing.
C14_SortedByTimestamp ==
    Flattened =>
        /\ \A i \in 1..(Len(attempts) - 1) : TimeOrZero(attempts[i]) >= TimeOrZero(attempts[i + 1])
        /\ SortAttempts(attempts) = attempts

\* the attempts nested in the argument, unsorted
NestedAttempts == IF store.arr THEN CollectAttempts(store.items) ELSE <<>>

\* the limit of the call clamped to [1, 200], 50 when none is given
ClampedLimit ==
    IF limit.k = "undef" THEN DefaultLimit
    ELSE IF limit.n < 1 THEN 1
    ELSE IF limit.n > MaxLimit THEN MaxLimit
    ELSE limit.n

\* how many attempts of s are later than time m
LaterThan(s, m) == Cardinality({i \in 1..Len(s) : TimeOrZero(s[i]) > m})

\* C15: the flattener returns min(N, clamp(limit, 1, 200)) attempts, N the
\* number of nested attempts and 50 the limit when none is given, and the
\* attempts kept are the most recent ones: every attempt later than a kept
\* one is kept.
C15_CappedMostRecent ==
    Flattened =>
        /\ Len(attempts) = IF Len(NestedAttempts) < ClampedLimit THEN Len(NestedAttempts)
                           ELSE ClampedLimit
        /\ \A k \in 1..Len(attempts) :
              LaterThan(NestedAttempts, TimeOrZero(attempts[k]))
                  = LaterThan(attempts, TimeOrZero(attempts[k]))

\* a response that reports a failure has been sent
FailureSent == response.kind \notin {"none", "render", "pdf"} /\ response.status # 200

\* the body is the envelope { success: false, message }
IsEnvelope(body) == DOMAIN body = {"success", "message"} /\ body.success = FALSE

\* C16: every failure response of the JSON data API and of the PDF export
\* has status 500 and the envelope { success: false, message } as its body;
\* every failure of the view is a redirect to the children listing with a
\* flash notice set.
C16_UniformFailures ==
    /\ (handler \in {"data", "pdf"} /\ FailureSent) =>
          /\ response.status = 500
          /\ response.kind = "json"
          /\ IsEnvelope(payload)
    /\ (handler = "view" /\ FailureSent) =>
          /\ response.kind = "redirect"
          /\ payload.location = "/specialist/children"
          /\ payload.flash # ""

\* C17: no step mutates a raw upstream payload in place: the progress
\* object received from /progress/child still holds the sessions the
\* upstream sent, and so does the array received from /progress/sessions.
C17_PayloadsUnchanged ==
    /\ progress.present => progress.sessions = store
    /\ (outcome.sessions = "ok" /\ sessions # NotArray) => sessions = SessionsAnswer("ok")

\* both fetches have settled and exactly one of them was rejected
OneFetchFailed ==
    /\ handler \in Pages
    /\ "pending" \notin {outcome.first, outcome.second}
    /\ (outcome.first = "throw") # (outcome.second = "throw")

\* C18: in the profile and account handlers a failure of one of the two
\* concurrent fetches does not fail the request: the handler answers only
\* after both have settled, and it renders the page with the data of the
\* successful fetch and the default for the failed one.
C18_OneFailureTolerated ==
    /\ (handler \in Pages /\ response.kind # "none") =>
          "pending" \notin {outcome.first, outcome.second}
    /\ OneFetchFailed =>
          /\ response.kind = "render"
          /\ handler = "profile" =>
                /\ payload.user = IF outcome.first = "ok" THEN store.first ELSE "req.user"
                /\ outcome.second = "throw" =>
                      payload.stats = [children |-> Num(0), parents |-> Num(0), sessions |-> Num(0)]
          /\ handler = "account" =>
                /\ payload.linkedParents = IF outcome.first = "ok" THEN store.first ELSE <<>>
                /\ payload.allParents = IF outcome.second = "ok" THEN store.second ELSE <<>>

\* how often a call was made in this request
CallCount(name) == Cardinality({i \in 1..Len(calls) : calls[i] = name})

\* C19: within one request each upstream endpoint is called at most once
\* and the engine is launched at most once; a failed call is not repeated,
\* and the fallback of the JSON and PDF handlers calls the other source,
\* /progress/child, exactly once.
C19_NoRetry ==
    /\ \A name \in {"progress", "sessions", "attempts", "children", "launch"} : CallCount(name) <= 1
    /\ (handler \in {"data", "pdf"} /\ outcome.sessions \in {"404", "err"}) =>
          /\ CallCount("sessions") = 1
          /\ CallCount("progress") = 1

\* the PDF export fell back after a failure of the sessions endpoint and
\* went on to launch the engine
C19_Witness ==
    /\ handler = "pdf"
    /\ Done
    /\ outcome.sessions = "err"
    /\ outcome.progress = "ok"
    /\ calls[1] = "sessions"
    /\ calls[2] = "progress"
    /\ CallCount("launch") = 1

\* C20: every request to the view, JSON and PDF handlers ends with exactly
\* one response sent and with no exception leaving the handler, whatever
\* the upstream calls and the engine do.
C20_OneResponseNoEscape ==
    (handler \in Handlers /\ Done) =>
        /\ response.kind # "none"
        /\ ~escaped

\* the failedAttempts raw session s supplies, under either name
SuppliedFailed(s) == Coalesce(s.failedAttempts, s.failed_attempts)

\* C21: when a raw session supplies a numeric failedAttempts under either
\* name, 0 included, the normalized failedAttempts equals the supplied
\* value; only when it is absent or not numeric is it computed as
\* max(0, totalAttempts - successfulAttempts).
C21_SuppliedFailedKept ==
    Normalized =>
        \A i \in 1..Len(sessions.items) :
            LET raw == NormalizerInput(store)[i]
                summary == sessions.items[i]
                derived == Sub(summary.totalAttempts, summary.successfulAttempts)
            IN  IF IsNum(SuppliedFailed(raw))
                THEN SameNumber(summary.failedAttempts, SuppliedFailed(raw))
                ELSE SameNumber(summary.failedAttempts, IF derived.n < 0 THEN Num(0) ELSE derived)

\* the number of sessions of the argument
ArgumentLength == IF store.arr THEN Len(store.items) ELSE 0

\* how many leading sessions of the argument a cut to the last 30 drops
Dropped == IF ArgumentLength > KeepSessions THEN ArgumentLength - KeepSessions ELSE 0

\* C22: for an array of n sessions the normalizer returns min(n, 30)
\* summaries that correspond, in the same order, to the last min(n, 30)
\* entries: the leading entries are the ones dropped.
C22_LastThirtyInOrder ==
    Normalized =>
        /\ Len(sessions.items) = ArgumentLength - Dropped
        /\ \A i \in 1..Len(sessions.items) :
              /\ sessions.items[i].sessionDate
                    = Coalesce(store.items[Dropped + i].sessionDate, store.items[Dropped + i].session_date)
              /\ sessions.items[i].totalAttempts = StoredTotal(store.items[Dropped + i])
              /\ sessions.items[i].successfulAttempts = StoredSuccessful(store.items[Dropped + i])

\* more than 30 sessions, each unlike the others, were cut to the last 30
C22_Witness ==
    /\ Normalized
    /\ Len(store.items) > KeepSessions
    /\ \A i, j \in 1..Len(store.items) : i # j => store.items[i] # store.items[j]
    /\ Len(sessions.items) = KeepSessions
    /\ sessions.items[1].sessionDate = Num(Len(store.items) - KeepSessions + 1)

\* the view was rendered with the sessions of the listing endpoint, whose
\* latest session holds well-formed attempts
ReducedFromEndpoint ==
    /\ handler = "view"
    /\ response.kind = "render"
    /\ outcome.sessions = "ok"
    /\ \A i \in 1..Len(LatestStored) : ~LatestStored[i].nul

\* the score shown for attempt a: its pronunciation score, else its score
ShownScore(a) ==
    IF a.pronunciationScore.k = "num" THEN a.pronunciationScore
    ELSE IF a.score.k = "num" THEN a.score ELSE Null

\* attempt i of observed is the last of those with the latest time on its target
LastOfLatest(observed, i) ==
    \A j \in 1..Len(observed) :
        TargetOf(observed[j]) = TargetOf(observed[i]) =>
            \/ TimeOrZero(observed[j]) < TimeOrZero(observed[i])
            \/ TimeOrZero(observed[j]) = TimeOrZero(observed[i]) /\ j <= i

\* C23: for each target the final-word reduction retains an attempt with
\* the maximum timestamp among the target's attempts in the latest session,
\* a missing timestamp counting as 0, and among equal maxima the one met
\* last; the entry carries that attempt's score.
C23_LatestAttemptRetained ==
    ReducedFromEndpoint =>
        LET final == payload.finalWordAnalysis
        IN  /\ \A i \in 1..Len(LatestStored) :
                  TargetOf(LatestStored[i]) # "" =>
                      \E e \in 1..Len(final) : final[e].target = TargetOf(LatestStored[i])
            /\ \A e \in 1..Len(final) : \E i \in 1..Len(LatestStored) :
                  /\ TargetOf(LatestStored[i]) = final[e].target
                  /\ LastOfLatest(LatestStored, i)
                  /\ final[e].recognizedText = LatestStored[i].recognizedText
                  /\ final[e].score = ShownScore(LatestStored[i])

\* the later of two attempts on one target came first in the list, and an
\* attempt met last among two of one time won
C23_Witness ==
    /\ ReducedFromEndpoint
    /\ Len(LatestStored) = 2
    /\ TargetOf(LatestStored[1]) = TargetOf(LatestStored[2])
    /\ \/ /\ TimeOrZero(LatestStored[1]) > TimeOrZero(LatestStored[2])
          /\ payload.finalWordAnalysis[1].recognizedText = LatestStored[1].recognizedText
       \/ /\ TimeOrZero(LatestStored[1]) = TimeOrZero(LatestStored[2])
          /\ LatestStored[1] # LatestStored[2]
          /\ payload.finalWordAnalysis[1].recognizedText = LatestStored[2].recognizedText

\* the view reached the final-word reduction with a null element among the
\* attempts of the latest session
ReductionThrew ==
    /\ handler = "view"
    /\ outcome.sessions = "ok"
    /\ outcome.attempts \in {"ok", "nosuccess"}
    /\ \E i \in 1..Len(LatestStored) : LatestStored[i].nul

\* C24: when the final-word reduction throws on malformed nested data, the
\* view is still rendered, with finalWordAnalysis the empty list and with
\* child, progress and attempts as they were; no partly built result is
\* handed out.
C24_ReductionFailureAbsorbed ==
    ReductionThrew =>
        /\ response.kind = "render"
        /\ payload.finalWordAnalysis = <<>>
        /\ payload.child = child
        /\ payload.progress = progress
        /\ payload.progress.sessions = sessions
        /\ payload.attempts = attempts

\* the reduction threw on the second attempt, after an attempt on a target
C24_Witness ==
    /\ ReductionThrew
    /\ Len(LatestStored) = 2
    /\ ~LatestStored[1].nul
    /\ TargetOf(LatestStored[1]) = "a"
    /\ LatestStored[2].nul
    /\ response.kind = "render"

\* the view was rendered although the attempts endpoint delivered no
\* successful result
AttemptsNotDelivered ==
    /\ handler = "view"
    /\ response.kind = "render"
    /\ outcome.attempts \in {"nosuccess", "404", "err"}

\* the flattener over the embedded sessions of the canonical record
FlattenedFromCanonical == FlattenAttemptsFromProgress(store, ViewLimit)

\* C25: in the view, whenever the attempts endpoint does not deliver a
\* successful result (it throws with 404, throws otherwise, or answers
\* without success), the attempts of the payload are the flattener's output
\* over the original embedded sessions of the canonical record, limit 50.
C25_FlattenerOnEveryFailure ==
    (AttemptsNotDelivered /\ FlattenedFromCanonical.ok) =>
        payload.attempts = FlattenedFromCanonical.val

\* the same for the two ways the request can throw
ThrownAttemptsFlattened ==
    (AttemptsNotDelivered /\ outcome.attempts # "nosuccess") =>
        /\ FlattenedFromCanonical.ok
        /\ payload.attempts = FlattenedFromCanonical.val

\* the places of an endpoint in the order of the calls
CallsOf(name) == {i \in 1..Len(calls) : calls[i] = name}

\* C26: in the JSON data API and the PDF export the canonical record
\* /progress/child is requested only after the request to /progress/sessions
\* has completed with a failure, never before it or while it is pending, and
\* not at all when /progress/sessions succeeds.
C26_CanonicalOnlyAfterFailure ==
    handler \in {"data", "pdf"} =>
        /\ \A i \in CallsOf("progress") :
              /\ outcome.sessions \in {"404", "err"}
              /\ \E j \in CallsOf("sessions") : j < i
        /\ outcome.sessions \notin {"404", "err"} => CallsOf("progress") = {}

\* the data API fell back to the canonical record after a 404 of the
\* sessions endpoint and answered
C26_Witness ==
    /\ handler = "data"
    /\ Done
    /\ outcome.sessions = "404"
    /\ calls = <<"sessions", "progress">>
    /\ response.status = 200

\* the JSON data API answered with its success body
DataAnswered == handler = "data" /\ response.kind = "json" /\ response.status = 200

\* the averageScore of a session as a number: 0 when it is missing or not
\* numeric
ScoreValue(s) == IF s.averageScore.k = "num" THEN s.averageScore ELSE Num(0)

\* the sessions of the answer whose score is at least from
ScoredFrom(from) ==
    {i \in 1..Len(payload.sessions) : Geq(ScoreValue(payload.sessions[i]), Num(from))}

\* the sessions of the answer whose score is below the bound
ScoredBelow(bound) ==
    {i \in 1..Len(payload.sessions) : Less(ScoreValue(payload.sessions[i]), Num(bound))}

\* the mean of the scores, halves rounded up
RoundedMeanScore ==
    LET total == SumSeq([i \in 1..Len(payload.sessions) |-> ScoreValue(payload.sessions[i])])
        n == Len(payload.sessions)
    IN  (2 * total.n + total.d * n) \div (2 * total.d * n)

\* C27: in the JSON data API each session is counted in exactly one
\* difficulty bucket, easy from 80, medium from 50 to below 80, hard
\* otherwise; averageScore is the mean of the sessions' averageScore with
\* halves rounded up; and the sessions {90, 10 attempts, 9 successful} and
\* {40, 10 attempts, 3 successful} give easy 1, medium 0, hard 1,
\* averageScore 65 and successRate 60.
C27_DifficultyBuckets ==
    DataAnswered =>
        LET difficulty == payload.chartData.difficulty
        IN  /\ difficulty["easy"] = Cardinality(ScoredFrom(EasyFrom))
            /\ difficulty["medium"] = Cardinality(ScoredFrom(MediumFrom) \cap ScoredBelow(EasyFrom))
            /\ difficulty["hard"] = Cardinality(ScoredBelow(MediumFrom))
            /\ Len(payload.sessions) > 0 => payload.stats.averageScore = RoundedMeanScore
            /\ payload.sessions = <<SGood, SBad>> =>
                  /\ difficulty = [b \in {"easy", "medium", "hard"} |-> IF b = "medium" THEN 0 ELSE 1]
                  /\ payload.stats.averageScore = 65
                  /\ payload.stats.successRate = 60

\* the scenario's two sessions were answered
C27_Witness ==
    /\ DataAnswered
    /\ Len(payload.sessions) = 2
    /\ payload.sessions[1].averageScore = Num(90)
    /\ payload.sessions[1].totalAttempts = Num(10)
    /\ payload.sessions[1].successfulAttempts = Num(9)
    /\ payload.sessions[2].averageScore = Num(40)
    /\ payload.sessions[2].totalAttempts = Num(10)
    /\ payload.sessions[2].successfulAttempts = Num(3)
    /\ payload.stats.averageScore = 65

\* the PDF export has bound its report into the template
ReportBound == handler = "pdf" /\ html # <<>>

\* the smaller of two numbers
Smaller(a, b) == IF a < b THEN a ELSE b

\* the mean of one numeric field over all sessions of the list, rounded
MeanOverList(field(_)) ==
    RecentMean([i \in 1..Len(sessions.items) |-> NumberOrZero(field(sessions.items[i]))])

ScoreField(s) == s.averageScore
RateField(s) == s.successRate

\* the table has a row for each of the last min(8, n) sessions, newest
\* first, and a list no longer than the window is averaged as a whole
RowsAndWindow ==
    LET n == Len(sessions.items)
        rows == html.lastSessions
    IN  /\ Len(rows) = Smaller(TableRows, n)
        /\ \A i \in 1..(Len(rows) - 1) : rows[i].date.at >= rows[i + 1].date.at
        /\ n <= RecentWindow =>
              /\ html.recentAvgScore = MeanOverList(ScoreField)
              /\ html.recentSuccessRate = MeanOverList(RateField)

\* C28: in the PDF export the recent-session table holds the last
\* min(8, n) sessions of the n-session list, newest first, and
\* recentAvgScore and recentSuccessRate are taken over the last min(5, n)
\* sessions, for every list, lists with missing or unparseable sessionDate
\* included.
C28_RecentOverWholeList == ReportBound => RowsAndWindow

\* every session of the list has a parseable date after the epoch
AllDated ==
    \A i \in 1..Len(sessions.items) :
        IsNum(DateTime(sessions.items[i].sessionDate)) /\ DateTime(sessions.items[i].sessionDate).n > 0

\* the same for the lists whose sessions all carry a date
DatedRowsAndWindow == (ReportBound /\ AllDated) => RowsAndWindow

\* the view was rendered with the attempts the flattener made of the
\* canonical record
FlattenedShown ==
    /\ handler = "view"
    /\ response.kind = "render"
    /\ outcome.attempts \in {"404", "err"}

\* the embedded attempts that carry none of word, letter and vowel, as
\* (session, place) pairs
TargetlessStored ==
    {p \in (1..Len(store.items)) \X (1..MaxAttempts) :
        /\ ~store.items[p[1]].nul
        /\ store.items[p[1]].attempts.arr
        /\ p[2] <= Len(store.items[p[1]].attempts.items)
        /\ TargetOf(store.items[p[1]].attempts.items[p[2]]) = ""}

\* the flattened attempts with the empty target
TargetlessShown == {k \in 1..Len(payload.attempts) : payload.attempts[k].target = ""}

\* every entry of the final-word analysis stems from a latest attempt that
\* names a target
EntriesNameTargets ==
    \A k \in 1..Len(payload.finalWordAnalysis) :
        \E i \in 1..Len(LatestStored) :
            /\ TargetOf(LatestStored[i]) # ""
            /\ payload.finalWordAnalysis[k].target = TargetOf(LatestStored[i])
            /\ payload.finalWordAnalysis[k].recognizedText = LatestStored[i].recognizedText

\* C29: an attempt with none of the word, letter and vowel fields appears
\* in the output of the flattener, with the empty target (below the length
\* cap every such attempt appears), and never contributes an entry to
\* finalWordAnalysis.
C29_TargetlessFlattenedNotReduced ==
    /\ FlattenedShown =>
          /\ Cardinality(TargetlessShown) = Cardinality(TargetlessStored)
          /\ \A k \in TargetlessShown :
                /\ payload.attempts[k].word = ""
                /\ payload.attempts[k].letter = ""
                /\ payload.attempts[k].vowel = ""
    /\ (handler = "view" /\ response.kind = "render") => EntriesNameTargets

\* the latest session held an attempt without a target and one with a
\* target: both were flattened, only the second was reduced
C29_Witness ==
    /\ FlattenedShown
    /\ outcome.sessions = "ok"
    /\ Len(LatestStored) = 2
    /\ TargetOf(LatestStored[1]) = ""
    /\ TargetOf(LatestStored[2]) # ""
    /\ Len(payload.attempts) = 2
    /\ Cardinality(TargetlessShown) = 1
    /\ Len(payload.finalWordAnalysis) = 1
    /\ payload.finalWordAnalysis[1].target = TargetOf(LatestStored[2])

\* the success/failure pair of the answer: chartData.successRate.data
RatioPair == payload.chartData.successRate

\* the pair is made of two non-negative numbers that add up to 100, the
\* first of them stats.successRate
PairSplitsHundred ==
    /\ Len(RatioPair) = 2
    /\ RatioPair[1] >= 0
    /\ RatioPair[2] >= 0
    /\ RatioPair[1] + RatioPair[2] = 100
    /\ RatioPair[1] = payload.stats.successRate

\* C30: in every success answer of the JSON data API the pair
\* chartData.successRate.data holds two non-negative numbers that add up to
\* 100, and its first element is stats.successRate, for every session list.
C30_RatioPairSumsToHundred == DataAnswered => PairSplitsHundred

\* the same for the answers whose success rate does not exceed 100
PairOfRateInRange ==
    (DataAnswered /\ payload.stats.successRate <= 100) => PairSplitsHundred

====
